---- MODULE Spec2Model ----
(***************************************************************************)
(* PopinPartyTheme (src/build.py): render(post) as a state machine.        *)
(*                                                                         *)
(* Each task runs one render call.  A step of a task is the code between   *)
(* two suspension points of the coroutine.  Python lists are objects with  *)
(* identity: heap[t] maps a list's identity to its elements, and the       *)
(* locals hold identities, so aliasing and in-place extension are visible. *)
(* The collaborators (HTTP-client accessor, is_pics_mergable, pic_merge,   *)
(* jinja2, get_new_page and the page operations) are not part of the       *)
(* source: every call of one is a choice over what it can do, return or    *)
(* raise, cancellation (CancelledError) included.                          *)
(***************************************************************************)
EXTENDS Integers, Sequences, FiniteSets, TLC

\* ------------------------------------------------------------------ bounds

NumTasks == 2
MaxImgs == 2
MaxManyImgs == 20

\* ------------------------------------------------------- program constants

BaseHeight == 600
PerImageHeight == 50
RepostHeight == 150
MaxHeight == 1200
ViewportWidth == 450
DeviceScaleFactor == 2
LocalUtcOffset == 28800

\* ------------------------------------------------------------------ values

Tasks == 1..NumTasks

\* The code tells a str from everything else (bytes, Path, BytesIO).
Kinds == {"str", "bytes"}

\* An element of post.images or post.repost.images (src says which): a URL
\* string, or raw bytes.
SrcImage(kind, src, idx) ==
    [type |-> kind, scheme |-> IF kind = "str" THEN "http" ELSE "none",
     src |-> src, idx |-> idx]

\* web_embed_image(img): a str holding a data: URL of the image's content.
web_embed_image(img) == [img EXCEPT !.type = "str", !.scheme = "data"]

\* isinstance(img, str)
IsStr(img) == img.type = "str"

\* The bytes pic_merge makes of the images it tiled into one.
Composite(imgs) == [imgs[1] EXCEPT !.type = "bytes", !.scheme = "merged"]

MkImages(ks, src) == [i \in 1..Len(ks) |-> SrcImage(ks[i], src, i)]

KindSeqs == UNION {[1..n -> Kinds] : n \in 0..MaxImgs}

UrlSeqs == {[i \in 1..n |-> "str"] : n \in 0..MaxManyImgs}

None == [some |-> FALSE, val |-> 0]
Some(v) == [some |-> TRUE, val |-> v]

Timestamps == {None, Some(0), Some(1700000000)}
ClockValues == {1700000100, 1700003700}

Nicknames == {"None", "", "A"}

NoRepost == [some |-> FALSE, images |-> <<>>]
Repost(imgs) == [some |-> TRUE, images |-> imgs]

\* bool(x) of the values the code tests for truth
TruthyStr(s) == s # "None" /\ s # ""
TruthyNum(o) == o.some /\ o.val # 0
TruthySeq(s) == Len(s) > 0

\* The posts render is called with.
MkPost(nick, imgs, rp, ts) ==
    [nickname |-> nick, images |-> imgs, repost |-> rp, timestamp |-> ts]

Posts ==
    {MkPost(n, MkImages(ks, "main"), rp, ts) :
        n \in Nicknames, ks \in KindSeqs,
        rp \in {NoRepost} \cup {Repost(MkImages(rs, "repost")) : rs \in KindSeqs},
        ts \in Timestamps}

\* Posts with many images, all URLs.
ManyPosts ==
    {MkPost("A", MkImages(ks, "main"), rp, None) :
        ks \in UrlSeqs,
        rp \in {NoRepost, Repost(<<>>), Repost(MkImages(<<"str", "bytes">>, "repost"))}}

\* Posts of concurrent render calls.
ConcPosts ==
    {MkPost(n, <<>>, NoRepost, Some(1700000000)) : n \in {"", "A"}}

\* ------------------------------------------------ timestamp formatting

\* The civil date of day number z (days since 1970-01-01).
CivilFromDays(z) ==
    LET zz == z + 719468
        era == zz \div 146097
        doe == zz - era * 146097
        yoe == (doe - doe \div 1460 + doe \div 36524 - doe \div 146096) \div 365
        doy == doe - (365 * yoe + yoe \div 4 - yoe \div 100)
        mp == (5 * doy + 2) \div 153
        d == doy - (153 * mp + 2) \div 5 + 1
        m == IF mp < 10 THEN mp + 3 ELSE mp - 9
        y == yoe + era * 400 + (IF m <= 2 THEN 1 ELSE 0)
    IN  <<y, m, d>>

\* datetime.fromtimestamp(secs).strftime("%Y-%m-%d %H:%M:%S"): the fields
\* of the string, in the host's local time.
FormatLocal(secs) ==
    LET loc == secs + LocalUtcOffset
        ymd == CivilFromDays(loc \div 86400)
        rem == loc % 86400
    IN  [Y |-> ymd[1], m |-> ymd[2], d |-> ymd[3],
         H |-> rem \div 3600, M |-> (rem % 3600) \div 60, S |-> rem % 60]

\* -------------------------------------------------------------- exceptions

NoExc == "none"

\* Python's `except Exception` does not catch a BaseException: cancellation.
IsException(e) == e # NoExc /\ e # "CancelledError"

NoErr == [type |-> NoExc, cause |-> NoExc, at |-> "none"]

\* The steps inside render's try block.
TryStages == {"new_page", "goto", "set_content", "wait", "screenshot"}

\* Surface with the try block around the whole of render.
Surface_wrap_all(e, at) ==
    IF IsException(e)
    THEN [type |-> "ThemeRenderError", cause |-> e, at |-> at]
    ELSE [type |-> e, cause |-> NoExc, at |-> at]

\* What render's caller sees of exception e raised by step `at`:
\* except Exception as e: raise ThemeRenderError(...) from e, inside the try
\* block only.
Surface(e, at) ==
    IF at \in TryStages /\ IsException(e)
    THEN [type |-> "ThemeRenderError", cause |-> e, at |-> at]
    ELSE [type |-> e, cause |-> NoExc, at |-> at]

\* ------------------------------------------------------------------- lists

ListIds ==
    {"post.images", "post.repost.images", "images0",
     "merged_main", "list_main", "merged_repost", "list_repost"}

NoRef == "none"

EmptyHeap == [l \in ListIds |-> <<>>]

\* A new list object `id` holding items.
ListNew(h, id, items) == [h EXCEPT ![id] = items]

\* ListExtend putting the items in front.
ListExtend_front(h, ref, items) == [h EXCEPT ![ref] = items \o @]

\* ref.extend(items), in place.
ListExtend(h, ref, items) == [h EXCEPT ![ref] = @ \o items]

\* ListOf returning pics itself: `return pics`.
ListOf_alias(h, pics, out) == [heap |-> h, ret |-> pics]

\* list(pics): a new list object `out` with the elements of pics.
ListOf(h, pics, out) == [heap |-> ListNew(h, out, h[pics]), ret |-> out]

\* ----------------------------------------------------------- merge_pics

\* is_pics_mergable(images): the collaborator's own policy.
IsPicsMergableResults == BOOLEAN

\* await pic_merge(images, client): it raises, or is cancelled, or returns
\* its argument as it is, or returns a new list `mid` in which the first m
\* images are tiled into one.
PicMergeOutcomes(h, src, mid) ==
    {[exc |-> e, heap |-> h, ret |-> NoRef] : e \in {"MergeError", "CancelledError"}}
    \cup {[exc |-> NoExc, heap |-> h, ret |-> src]}
    \cup {[exc |-> NoExc,
           heap |-> ListNew(h, mid, <<Composite(SubSeq(h[src], 1, m))>>
                                     \o SubSeq(h[src], m + 1, Len(h[src]))),
           ret |-> mid] : m \in 2..Len(h[src])}

\* merge_pics(images, client), images being the list `src`: what it raises,
\* the heap it leaves, the list it returns and its local pics.
merge_pics(h, src, mid, out) ==
    UNION {
        IF mergable
        THEN {IF o.exc # NoExc
              THEN [mergable |-> TRUE, exc |-> o.exc, heap |-> o.heap, ret |-> NoRef,
                    pics |-> NoRef]
              ELSE LET l == ListOf(o.heap, o.ret, out)
                   IN  [mergable |-> TRUE, exc |-> NoExc, heap |-> l.heap,
                        ret |-> l.ret, pics |-> o.ret]
              : o \in PicMergeOutcomes(h, src, mid)}
        ELSE {LET l == ListOf(h, src, out)
              IN  [mergable |-> FALSE, exc |-> NoExc, heap |-> l.heap, ret |-> l.ret,
                   pics |-> src]}
        : mergable \in IsPicsMergableResults}

\* ------------------------------------------------------------- parse helpers

\* NicknameMissing as `if post.nickname is None`.
NicknameMissing_is_none(nick) == nick = "None"

\* if not post.nickname
NicknameMissing(nick) == ~TruthyStr(nick)

\* The display references of the main post's images.
ContentImageUrls(imgs) ==
    [i \in 1..Len(imgs) |-> IF IsStr(imgs[i]) THEN imgs[i] ELSE web_embed_image(imgs[i])]

\* The display references of the repost's images.
RetweetImageUrls(imgs) == SelectSeq(imgs, IsStr)

\* if post.timestamp
UsesPostTimestamp(ts) == TruthyNum(ts)

TimestampStr(ts, now) ==
    IF UsesPostTimestamp(ts) THEN FormatLocal(ts.val) ELSE FormatLocal(now)

NoRetweet == [some |-> FALSE, images |-> <<>>]

NoCard ==
    [built |-> FALSE, user |-> "", content_images |-> <<>>,
     retweet |-> NoRetweet, timestamp |-> FormatLocal(0)]

\* ------------------------------------------------------------ render helpers

Min(a, b) == IF a <= b THEN a ELSE b

\* ViewportHeight without the min(..., 1200).
ViewportHeight_unclamped(card) ==
    BaseHeight + Len(card.content_images) * PerImageHeight
        + (IF card.retweet.some THEN RepostHeight ELSE 0)

\* The viewport height of the page.
ViewportHeight(card) ==
    LET withImages == IF TruthySeq(card.content_images)
                      THEN BaseHeight + Len(card.content_images) * PerImageHeight
                      ELSE BaseHeight
        base_height == IF card.retweet.some THEN withImages + RepostHeight
                       ELSE withImages
    IN  Min(base_height, MaxHeight)

NoPagesKw == [device_scale_factor |-> 0, width |-> 0, height |-> 0]

PagesKw(card) ==
    [device_scale_factor |-> DeviceScaleFactor, width |-> ViewportWidth,
     height |-> ViewportHeight(card)]

\* PagesAfterExit closing the page after the screenshot only, not in a scope.
PagesAfterExit_manual(ps, t, exc) == IF exc = NoExc THEN ps \ {t} ELSE ps

\* The open pages after task t leaves `async with get_new_page(...)`,
\* exc being the exception that ended the body (NoExc: none did).
PagesAfterExit(ps, t, exc) == ps \ {t}

\* Segments returning no segment.
Segments_empty(shot) == <<>>

\* msgs = [Image(screenshot)]
Segments(shot) == <<[type |-> "Image", data |-> shot]>>

Collaborators ==
    {"get_client_for_static", "merge_pics", "get_template", "embed_svg_as_data_url",
     "render_async", "get_new_page", "goto", "set_content", "wait_for_timeout",
     "screenshot", "Image"}

\* ------------------------------------------------------------------- state

VARIABLES pc, arg, heap, loc, pages, calls, result, err

vars == <<pc, arg, heap, loc, pages, calls, result, err>>

NoPost == MkPost("None", <<>>, NoRepost, None)

NoLocals ==
    [http_client |-> FALSE, images |-> NoRef, image_urls |-> <<>>,
     pics_main |-> NoRef, pics_repost |-> NoRef, repost_images |-> NoRef,
     mergable_main |-> "unasked", mergable_repost |-> "unasked",
     retweet |-> NoRetweet, card |-> NoCard, template |-> FALSE, logo |-> FALSE,
     html |-> FALSE, pages_kw |-> NoPagesKw, pending |-> NoExc, failed_at |-> "none",
     screenshot |-> FALSE]

Init ==
    /\ pc = [t \in Tasks |-> "idle"]
    /\ arg = [t \in Tasks |-> NoPost]
    /\ heap = [t \in Tasks |-> EmptyHeap]
    /\ loc = [t \in Tasks |-> NoLocals]
    /\ pages = {}
    /\ calls = [t \in Tasks |-> [c \in Collaborators |-> 0]]
    /\ result = [t \in Tasks |-> <<>>]
    /\ err = [t \in Tasks |-> NoErr]

Called(t, c) == calls' = [calls EXCEPT ![t][c] = @ + 1]

\* The exception e of step `at` leaves render.
Raise(t, e, at) ==
    /\ pc' = [pc EXCEPT ![t] = "raised"]
    /\ err' = [err EXCEPT ![t] = Surface(e, at)]

Goto(t, next) ==
    /\ pc' = [pc EXCEPT ![t] = next]
    /\ UNCHANGED err

\* ----------------------------------------------------------------- actions

\* A caller awaits render(post), post drawn from P.
Render(t, P) ==
    /\ pc[t] = "idle"
    /\ \E p \in P :
        /\ arg' = [arg EXCEPT ![t] = p]
        /\ heap' = [heap EXCEPT ![t] =
                       [EmptyHeap EXCEPT !["post.images"] = p.images,
                                         !["post.repost.images"] = p.repost.images]]
    /\ Goto(t, "parse")
    /\ UNCHANGED <<loc, pages, calls, result>>

\* parse: the nickname check and the user information.
ParseValidate(t) ==
    /\ pc[t] = "parse"
    /\ IF NicknameMissing(arg[t].nickname)
       THEN Raise(t, "ThemeRenderUnsupportError", "parse")
       ELSE Goto(t, "get_client")
    /\ UNCHANGED <<arg, heap, loc, pages, calls, result>>

\* parse: http_client = await post.platform.ctx.get_client_for_static()
GetClient(t) ==
    /\ pc[t] = "get_client"
    /\ Called(t, "get_client_for_static")
    /\ \E e \in {NoExc, "HTTPError", "CancelledError"} :
        IF e # NoExc
        THEN Raise(t, e, "get_client") /\ UNCHANGED loc
        ELSE /\ Goto(t, "main_images")
             /\ loc' = [loc EXCEPT ![t].http_client = TRUE]
    /\ UNCHANGED <<arg, heap, pages, result>>

\* parse: the main post's images, then the content.
ParseImages(t) ==
    /\ pc[t] = "main_images"
    /\ LET h0 == ListNew(heap[t], "images0", <<>>)
       IN  IF TruthySeq(h0["post.images"])
           THEN /\ Called(t, "merge_pics")
                /\ \E o \in merge_pics(h0, "post.images", "merged_main", "list_main") :
                    /\ heap' = [heap EXCEPT ![t] = o.heap]
                    /\ IF o.exc # NoExc
                       THEN /\ Raise(t, o.exc, "merge_main")
                            /\ loc' = [loc EXCEPT ![t].images = "images0",
                                                  ![t].mergable_main = "yes"]
                       ELSE /\ Goto(t, "repost")
                            /\ loc' = [loc EXCEPT
                                  ![t].images = o.ret,
                                  ![t].pics_main = o.pics,
                                  ![t].mergable_main = IF o.mergable THEN "yes" ELSE "no",
                                  ![t].image_urls = ContentImageUrls(o.heap["post.images"])]
           ELSE /\ heap' = [heap EXCEPT ![t] = h0]
                /\ loc' = [loc EXCEPT ![t].images = "images0"]
                /\ Goto(t, "repost")
                /\ UNCHANGED calls
    /\ UNCHANGED <<arg, pages, result>>

\* parse: the repost.
ParseRepost(t) ==
    /\ pc[t] = "repost"
    /\ IF arg[t].repost.some /\ TruthySeq(heap[t]["post.repost.images"])
       THEN /\ Called(t, "merge_pics")
            /\ \E o \in merge_pics(heap[t], "post.repost.images",
                                   "merged_repost", "list_repost") :
                IF o.exc # NoExc
                THEN /\ Raise(t, o.exc, "merge_repost")
                     /\ heap' = [heap EXCEPT ![t] = o.heap]
                     /\ loc' = [loc EXCEPT ![t].mergable_repost = "yes"]
                ELSE LET h1 == ListExtend(o.heap, loc[t].images, o.heap[o.ret])
                     IN  /\ heap' = [heap EXCEPT ![t] = h1]
                         /\ loc' = [loc EXCEPT
                               ![t].repost_images = o.ret,
                               ![t].pics_repost = o.pics,
                               ![t].mergable_repost = IF o.mergable THEN "yes" ELSE "no",
                               ![t].retweet =
                                   [some |-> TRUE,
                                    images |-> RetweetImageUrls(h1["post.repost.images"])]]
                         /\ Goto(t, "card")
       ELSE /\ loc' = [loc EXCEPT ![t].retweet =
                          [some |-> arg[t].repost.some, images |-> <<>>]]
            /\ Goto(t, "card")
            /\ UNCHANGED <<heap, calls>>
    /\ UNCHANGED <<arg, pages, result>>

\* parse: the timestamp and the card; parse returns (card, images).
ParseCard(t) ==
    /\ pc[t] = "card"
    /\ \E now \in ClockValues :
        loc' = [loc EXCEPT ![t].card =
                   [built |-> TRUE, user |-> arg[t].nickname,
                    content_images |-> loc[t].image_urls,
                    retweet |-> loc[t].retweet,
                    timestamp |-> TimestampStr(arg[t].timestamp, now)]]
    /\ Goto(t, "get_template")
    /\ UNCHANGED <<arg, heap, pages, calls, result>>

\* render: template = template_env.get_template(self.template_name)
GetTemplate(t) ==
    /\ pc[t] = "get_template"
    /\ Called(t, "get_template")
    /\ \E e \in {NoExc, "TemplateNotFound"} :
        IF e # NoExc
        THEN Raise(t, e, "get_template") /\ UNCHANGED loc
        ELSE /\ Goto(t, "embed_logo")
             /\ loc' = [loc EXCEPT ![t].template = TRUE]
    /\ UNCHANGED <<arg, heap, pages, result>>

\* render: bang_dream_logo = await embed_svg_as_data_url(...): a str, ""
\* when the file is missing.
EmbedLogo(t) ==
    /\ pc[t] = "embed_logo"
    /\ Called(t, "embed_svg_as_data_url")
    /\ \E e \in {NoExc, "OSError", "CancelledError"} :
        IF e # NoExc
        THEN Raise(t, e, "embed_logo") /\ UNCHANGED loc
        ELSE /\ Goto(t, "render_async")
             /\ loc' = [loc EXCEPT ![t].logo = TRUE]
    /\ UNCHANGED <<arg, heap, pages, result>>

\* render: html = await template.render_async(card=..., bang_dream_logo=...)
RenderAsync(t) ==
    /\ pc[t] = "render_async"
    /\ Called(t, "render_async")
    /\ \E e \in {NoExc, "TemplateError", "CancelledError"} :
        IF e # NoExc
        THEN Raise(t, e, "render_async") /\ UNCHANGED loc
        ELSE /\ Goto(t, "viewport")
             /\ loc' = [loc EXCEPT ![t].html = TRUE]
    /\ UNCHANGED <<arg, heap, pages, result>>

\* render: the keyword arguments of get_new_page.
ComputeViewport(t) ==
    /\ pc[t] = "viewport"
    /\ loc' = [loc EXCEPT ![t].pages_kw = PagesKw(loc[t].card)]
    /\ Goto(t, "new_page")
    /\ UNCHANGED <<arg, heap, pages, calls, result>>

\* render: async with get_new_page(**pages) as page: entering.
AcquirePage(t) ==
    /\ pc[t] = "new_page"
    /\ Called(t, "get_new_page")
    /\ \E e \in {NoExc, "BrowserError", "CancelledError"} :
        IF e # NoExc
        THEN Raise(t, e, "new_page") /\ UNCHANGED pages
        ELSE Goto(t, "goto") /\ pages' = pages \cup {t}
    /\ UNCHANGED <<arg, heap, loc, result>>

\* One awaited operation of the page, inside the async with body: it
\* returns, or its exception ends the body.
PageOp(t, at, c, next) ==
    /\ pc[t] = at
    /\ Called(t, c)
    /\ \E e \in {NoExc, "PlaywrightError", "CancelledError"} :
        IF e # NoExc
        THEN /\ Goto(t, "page_exit")
             /\ loc' = [loc EXCEPT ![t].pending = e, ![t].failed_at = at]
        ELSE /\ Goto(t, next)
             /\ loc' = [loc EXCEPT ![t].screenshot = (at = "screenshot")]
    /\ UNCHANGED <<arg, heap, pages, result>>

PageGoto(t) == PageOp(t, "goto", "goto", "set_content")

PageSetContent(t) == PageOp(t, "set_content", "set_content", "wait")

PageWait(t) == PageOp(t, "wait", "wait_for_timeout", "screenshot")

PageScreenshot(t) == PageOp(t, "screenshot", "screenshot", "page_exit")

\* render: leaving the async with: the page is released, then the body's
\* exception, if any, goes on to the except clause.
PageExit(t) ==
    /\ pc[t] = "page_exit"
    /\ pages' = PagesAfterExit(pages, t, loc[t].pending)
    /\ IF loc[t].pending # NoExc
       THEN Raise(t, loc[t].pending, loc[t].failed_at)
       ELSE Goto(t, "package")
    /\ UNCHANGED <<arg, heap, loc, calls, result>>

\* render: msgs = [Image(screenshot)]; return msgs
Package(t) ==
    /\ pc[t] = "package"
    /\ Called(t, "Image")
    /\ result' = [result EXCEPT ![t] = Segments(loc[t].screenshot)]
    /\ Goto(t, "returned")
    /\ UNCHANGED <<arg, heap, loc, pages>>

Step(t, P) ==
    \/ Render(t, P)
    \/ ParseValidate(t)
    \/ GetClient(t)
    \/ ParseImages(t)
    \/ ParseRepost(t)
    \/ ParseCard(t)
    \/ GetTemplate(t)
    \/ EmbedLogo(t)
    \/ RenderAsync(t)
    \/ ComputeViewport(t)
    \/ AcquirePage(t)
    \/ PageGoto(t)
    \/ PageSetContent(t)
    \/ PageWait(t)
    \/ PageScreenshot(t)
    \/ PageExit(t)
    \/ Package(t)

\* One render call, over every shape of post.
Next == \E t \in {1} : Step(t, Posts)

Spec == Init /\ [][Next]_vars

\* One render call, over posts with many images.
NextMany == \E t \in {1} : Step(t, ManyPosts)

SpecMany == Init /\ [][NextMany]_vars

\* Concurrent render calls.
NextConc == \E t \in Tasks : Step(t, ConcPosts)

SpecConc == Init /\ [][NextConc]_vars

\* ------------------------------------------------------------------ claims

Terminated(t) == pc[t] \in {"returned", "raised"}

NoCalls(t, cs) == \A c \in cs : calls[t][c] = 0

\* The list parse returns as its second value.
MergedImages(t) == heap[t][loc[t].images]

FromMain(img) == img.src = "main"

FromRepost(img) == img.src = "repost"

\* C1: a post whose nickname is absent or empty makes render raise
\* ThemeRenderUnsupportError before any I/O: no collaborator is called (not
\* the HTTP-client accessor, not merge_pics, not the template engine, not
\* the browser), no card is built and no page is held.
C1_UnsupportedBeforeIO ==
    \A t \in Tasks :
        (pc[t] # "idle" /\ arg[t].nickname \in {"None", ""}) =>
            /\ pc[t] \in {"parse", "raised"}
            /\ pc[t] = "raised" =>
                  err[t] = [type |-> "ThemeRenderUnsupportError", cause |-> NoExc,
                            at |-> "parse"]
            /\ NoCalls(t, Collaborators)
            /\ loc[t] = NoLocals
            /\ t \notin pages
            /\ result[t] = <<>>

C1_Witness ==
    \E t \in Tasks :
        /\ arg[t].nickname = ""
        /\ pc[t] = "raised"
        /\ err[t].type = "ThemeRenderUnsupportError"

\* C2: an exception (not a cancellation) raised while the template is
\* rendered (get_template, the logo, render_async) or the screenshot is
\* taken (get_new_page, goto, set_content, wait, screenshot) leaves render
\* only as ThemeRenderError carrying the original exception as its cause.
C2_OnlyRenderError ==
    \A t \in Tasks :
        (/\ pc[t] = "raised"
         /\ err[t].at \in {"get_template", "embed_logo", "render_async"} \cup TryStages
         /\ err[t].type # "CancelledError") =>
            /\ err[t].type = "ThemeRenderError"
            /\ IsException(err[t].cause)

\* C3: a render call enters get_new_page at most once, holds a page only
\* inside the async with body, and holds none once it has returned or
\* raised, whatever the other render calls are doing.
C3_PageScoped ==
    \A t \in Tasks :
        /\ calls[t]["get_new_page"] <= 1
        /\ Terminated(t) => t \notin pages
        /\ t \in pages =>
              pc[t] \in {"goto", "set_content", "wait", "screenshot", "page_exit"}

C3_Witness ==
    \E t, u \in Tasks :
        /\ t # u
        /\ pc[t] = "raised" /\ err[t].type = "ThemeRenderError"
        /\ err[t].at = "screenshot" /\ t \notin pages
        /\ pc[u] = "raised" /\ err[u].type = "CancelledError"
        /\ err[u].at = "wait" /\ u \notin pages

\* C4: the viewport given to get_new_page has height
\* min(600 + 50*k + (150 if the post has a repost), 1200), k being the
\* number of images of the main post, which lies in 600..1200; its width is
\* 450 and the device scale factor 2.
C4_Viewport ==
    \A t \in Tasks :
        calls[t]["get_new_page"] > 0 =>
            LET k == Len(arg[t].images)
                h == 600 + 50 * k + (IF arg[t].repost.some THEN 150 ELSE 0)
                kw == loc[t].pages_kw
            IN  /\ kw.height = (IF h <= 1200 THEN h ELSE 1200)
                /\ kw.height \in 600..1200
                /\ (k = 3 /\ ~arg[t].repost.some) => kw.height = 750
                /\ k = 20 => kw.height = 1200
                /\ kw.width = 450
                /\ kw.device_scale_factor = 2

C4_Witness ==
    \E t \in Tasks :
        /\ calls[t]["get_new_page"] > 0
        /\ Len(arg[t].images) = 20
        /\ ~arg[t].repost.some
        /\ loc[t].pages_kw.height = 1200

\* C5: for a post with images, the list parse returns is no longer than
\* the main post's and the repost's images together, holds what came of the
\* main post before what came of the repost, and holds each group as
\* merge_pics made it.
C5_CompositingList ==
    \A t \in Tasks :
        (loc[t].card.built /\ Len(arg[t].images) > 0) =>
            LET imgs == MergedImages(t)
            IN  /\ Len(imgs) <= Len(arg[t].images) + Len(arg[t].repost.images)
                /\ \A i, j \in 1..Len(imgs) :
                      (FromRepost(imgs[i]) /\ FromMain(imgs[j])) => j < i
                /\ SelectSeq(imgs, FromMain) = heap[t][loc[t].pics_main]
                /\ SelectSeq(imgs, FromRepost) =
                      (IF loc[t].pics_repost = NoRef THEN <<>>
                       ELSE heap[t][loc[t].pics_repost])

C5_Witness ==
    \E t \in Tasks :
        /\ loc[t].card.built
        /\ Len(arg[t].images) = 2 /\ Len(arg[t].repost.images) = 2
        /\ loc[t].pics_main = "merged_main"
        /\ loc[t].mergable_repost = "no"
        /\ Len(MergedImages(t)) = 3

PcOrder ==
    <<"idle", "parse", "get_client", "main_images", "repost", "card",
      "get_template", "embed_logo", "render_async", "viewport", "new_page",
      "goto", "set_content", "wait", "screenshot", "page_exit", "package">>

Rank(p) ==
    IF p \in {"returned", "raised"} THEN Len(PcOrder) + 1
    ELSE CHOOSE i \in 1..Len(PcOrder) : PcOrder[i] = p

\* A step of a call moves it forward in the order of the pipeline, never
\* back to a step it has taken, and a call that has ended does nothing more.
C6_StepOrder ==
    \A t \in Tasks :
        /\ pc'[t] # pc[t] => Rank(pc'[t]) > Rank(pc[t])
        /\ Terminated(t) =>
              /\ pc'[t] = pc[t] /\ calls'[t] = calls[t]
              /\ result'[t] = result[t] /\ err'[t] = err[t]

\* A call ends with one image segment and no error, or with an error and
\* no segment; no collaborator but merge_pics (the main post's images, the
\* repost's) is called twice.
C6_Outcome ==
    \A t \in Tasks :
        /\ pc[t] = "returned" =>
              /\ Len(result[t]) = 1
              /\ result[t][1] = [type |-> "Image", data |-> TRUE]
              /\ err[t] = NoErr
        /\ pc[t] = "raised" => (result[t] = <<>> /\ err[t].type # NoExc)
        /\ ~Terminated(t) => (result[t] = <<>> /\ err[t] = NoErr)
        /\ \A c \in Collaborators \ {"merge_pics"} : calls[t][c] <= 1
        /\ calls[t]["merge_pics"] <= 2

\* C6: a render call takes the steps of the pipeline in order, each at most
\* once; the first failure ends it; it ends with exactly one image segment
\* or with an error.
C6_Pipeline == [][C6_StepOrder]_vars /\ []C6_Outcome

C6_Witness ==
    \E t \in Tasks :
        /\ pc[t] = "returned"
        /\ Len(result[t]) = 1
        /\ \A c \in Collaborators \ {"merge_pics"} : calls[t][c] = 1

\* C7: an error of the HTTP-client accessor or of merge_pics (main post or
\* repost) leaves render as it was raised, not as ThemeRenderError, before
\* the template engine or the browser is used.
C7_ParseErrorsPropagate ==
    \A t \in Tasks :
        (pc[t] = "raised" /\ err[t].at \in {"get_client", "merge_main", "merge_repost"}) =>
            /\ err[t].type \in {"HTTPError", "MergeError", "CancelledError"}
            /\ err[t].at = "get_client" => err[t].type # "MergeError"
            /\ err[t].at # "get_client" => err[t].type # "HTTPError"
            /\ err[t].cause = NoExc
            /\ NoCalls(t, Collaborators \ {"get_client_for_static", "merge_pics"})
            /\ ~loc[t].card.built /\ ~loc[t].html
            /\ t \notin pages

C7_Witness ==
    \E t \in Tasks :
        /\ pc[t] = "raised"
        /\ err[t] = [type |-> "MergeError", cause |-> NoExc, at |-> "merge_repost"]
        /\ calls[t]["merge_pics"] = 2

\* C8: the card's retweet.images holds one display reference for each image
\* of the repost, in order: a URL as it is, anything else embedded.
C8_RetweetImagesComplete ==
    \A t \in Tasks :
        (loc[t].card.built /\ arg[t].repost.some) =>
            LET src == arg[t].repost.images
                got == loc[t].card.retweet.images
            IN  /\ Len(got) = Len(src)
                /\ \A i \in 1..Len(got) :
                      got[i] = (IF IsStr(src[i]) THEN src[i] ELSE web_embed_image(src[i]))

\* C9: the card's timestamp of a post that carries a timestamp, 0 included,
\* is the local formatting of that instant.
C9_TimestampFormatted ==
    \A t \in Tasks :
        (loc[t].card.built /\ arg[t].timestamp.some) =>
            loc[t].card.timestamp = FormatLocal(arg[t].timestamp.val)

\* C10: merge_pics returns a list of its own with the elements of its
\* input when the images are not mergeable, and post.images and
\* post.repost.images hold, during and after parse, what they held when
\* render was called.
C10_InputsNotMutated ==
    \A t \in Tasks :
        /\ pc[t] # "idle" =>
              /\ heap[t]["post.images"] = arg[t].images
              /\ heap[t]["post.repost.images"] = arg[t].repost.images
        /\ loc[t].mergable_main = "no" =>
              /\ loc[t].images \notin {"post.images", "post.repost.images"}
              /\ SubSeq(MergedImages(t), 1, Len(arg[t].images)) = arg[t].images
        /\ loc[t].mergable_repost = "no" =>
              /\ loc[t].repost_images \notin {"post.images", "post.repost.images"}
              /\ heap[t][loc[t].repost_images] = arg[t].repost.images

C10_Witness ==
    \E t \in Tasks :
        /\ loc[t].card.built
        /\ loc[t].mergable_main = "no"
        /\ Len(arg[t].images) > 0
        /\ Len(arg[t].repost.images) > 0
        /\ Len(MergedImages(t)) > Len(arg[t].images)

====
